---- MODULE Spec2Model ----
(***************************************************************************)
(* Product forecast form (src/app.py): a Streamlit script that is re-run   *)
(* top to bottom on every user interaction.  The state is the session      *)
(* state (page, product_entries, email, company, country, locked_rows, the *)
(* canonical row_idx_<i> keys), the values the widgets on screen hold, and *)
(* the remote sheet.  One action per user interaction; each action is the  *)
(* whole script run that the interaction triggers.                         *)
(***************************************************************************)
EXTENDS Integers, Sequences, FiniteSets, TLC

VARIABLES
    page,             \* st.session_state.page: "form" | "review"
    product_entries,  \* st.session_state.product_entries: sequence of rows
    email,            \* st.session_state.email
    company,          \* st.session_state.company
    country,          \* st.session_state.country
    locked_rows,      \* st.session_state.locked_rows
    row_idx,          \* st.session_state["row_idx_<i>"], a function on the rows that have the key
    shown,            \* the page whose widgets are on screen: "none" | "form" | "review"
    wCountry,         \* the country selectbox on screen (<<>> when absent)
    wText,            \* the "type your country" text input on screen
    wGroup,           \* per row: the group selectbox on screen
    wName,            \* per row: the name selectbox on screen
    wDetail,          \* per row: the detail selectbox on screen
    identity,         \* how the widget library identifies a keyed widget: "params" | "key"
    alert,            \* what the last script run reported: st.error / st.success
    edits,            \* how many times the user has changed an input of the form
    sheet,            \* the remote sheet: sequence of rows
    catalog,          \* the rows pd.read_csv("product list.csv") returned
    peer              \* where another session stands in its submit_to_google

vars == << page, product_entries, email, company, country, locked_rows, row_idx,
           shown, wCountry, wText, wGroup, wName, wDetail, identity, alert,
           edits, sheet, catalog, peer >>

----------------------------------------------------------------------------
(* Bounds of the model. *)

MaxRows == 2        \* rows the user adds to one session
MaxQty == 1         \* largest quantity typed into a month input
MaxEditMonth == 1   \* the user edits the first MaxEditMonth months of a row
MaxEdits == 4       \* changes the user makes to the inputs of the form in one session
MaxSheet == 3       \* rows of the sheet beyond which nothing more is submitted

----------------------------------------------------------------------------
(* Texts.  A text is a sequence of tokens; the token " " is whitespace.    *)

None == "None"

Space == " "

RECURSIVE LStrip(_)
LStrip(s) == IF s # <<>> /\ Head(s) = Space THEN LStrip(Tail(s)) ELSE s

RECURSIVE RStrip(_)
RStrip(s) ==
    IF s # <<>> /\ s[Len(s)] = Space THEN RStrip(SubSeq(s, 1, Len(s) - 1)) ELSE s

\* str.strip()
Strip(s) == RStrip(LStrip(s))

\* what the user types into a text input
TextInputs == { <<Space>>, <<Space, "a">> }

\* sorted([c.name for c in pycountry.countries]) + ["Other"]
countries == << <<"Canada">>, <<"Other">> >>

MONTH_LIST ==
    << "January", "February", "March", "April", "May", "June",
       "July", "August", "September", "October", "November", "December" >>

Range(s) == { s[k] : k \in DOMAIN s }

IndexOf(s, x) == CHOOSE k \in DOMAIN s : s[k] = x /\ \A j \in 1..(k - 1) : s[j] # x

----------------------------------------------------------------------------
(* The product catalog.                                                    *)

\* pd.read_csv("product list.csv") on the product list the form is run with:
\* the rows of the file in source order; row k of the sequence has the
\* DataFrame index label k.  The definitions of this section are those of
\* this product list.
load_data ==
    << [group |-> "Dialyzer",  name |-> "B", detail |-> "Desc-9", code |-> "D9"],
       [group |-> "Bloodline", name |-> "Z", detail |-> "Desc-Z", code |-> "L1"],
       [group |-> None,        name |-> "N", detail |-> "Desc-N", code |-> "N0"],
       [group |-> "Dialyzer",  name |-> "B", detail |-> "Desc-2", code |-> "D2"],
       [group |-> "Bloodline", name |-> "B", detail |-> "Desc-3", code |-> "L3"],
       [group |-> "Dialyzer",  name |-> "C", detail |-> "Desc-9", code |-> "D7"] >>

\* a product list with no row, and one whose only row has no group
EmptyLists == { <<>>, << [group |-> None, name |-> "N", detail |-> "Desc-N", code |-> "N0"] >> }

\* lines 91-92 and 285: product_groups is [] when no row of the file has a group
NoGroups == \A k \in DOMAIN catalog : catalog[k].group = None

\* df_products.dropna(subset=["Product Group"]): the rows keep their labels
df_products == [ k \in { j \in DOMAIN load_data : load_data[j].group # None } |-> load_data[k] ]

\* the order Python's sorted() puts the catalog's strings in
Alphabet == << "B", "Bloodline", "C", "D2", "D7", "D9", "Desc-2", "Desc-3", "Desc-9",
               "Desc-N", "Desc-Z", "Dialyzer", "L1", "L3", "N", "N0", "Z" >>

Before(a, b) == IndexOf(Alphabet, a) < IndexOf(Alphabet, b)

\* the labels of a set of labels in ascending order
RECURSIVE Ascending(_)
Ascending(S) ==
    IF S = {} THEN <<>>
    ELSE LET m == CHOOSE x \in S : \A y \in S : x <= y
         IN <<m>> \o Ascending(S \ {m})

\* sorted(xs) for a set of strings
RECURSIVE Sorted(_)
Sorted(S) ==
    IF S = {} THEN <<>>
    ELSE LET m == CHOOSE x \in S : \A y \in S \ {x} : Before(x, y)
         IN <<m>> \o Sorted(S \ {m})

\* sorted(df_products["Product Group"].unique().tolist())
product_groups == Sorted({ df_products[k].group : k \in DOMAIN df_products })

\* get_filtered_df(group), as the labels of its rows in source order (filtered.index)
get_filtered_df(group) ==
    Ascending({ k \in DOMAIN df_products : df_products[k].group = group })

\* get_filtered_df for each group of the catalog, computed once
FilteredOf == [ g \in Range(product_groups) |-> get_filtered_df(g) ]

\* filtered.index[filtered[column] == value][0]
FirstWith(filtered, column, value) ==
    filtered[CHOOSE k \in DOMAIN filtered :
                /\ df_products[filtered[k]][column] = value
                /\ \A j \in 1..(k - 1) : df_products[filtered[j]][column] # value]

\* value in filtered[column].values
Among(filtered, column, value) ==
    \E k \in Range(filtered) : df_products[k][column] = value

\* find_row_index falling back to the last row of the frame
find_row_index_last(filtered, entry) ==
    IF Among(filtered, "code", entry.code) THEN FirstWith(filtered, "code", entry.code)
    ELSE IF Among(filtered, "name", entry.name) THEN FirstWith(filtered, "name", entry.name)
    ELSE IF Among(filtered, "detail", entry.detail) THEN FirstWith(filtered, "detail", entry.detail)
    ELSE filtered[Len(filtered)]

\* find_row_index(filtered, entry); the caller never passes an empty frame
find_row_index(filtered, entry) ==
    IF Among(filtered, "code", entry.code) THEN FirstWith(filtered, "code", entry.code)
    ELSE IF Among(filtered, "name", entry.name) THEN FirstWith(filtered, "name", entry.name)
    ELSE IF Among(filtered, "detail", entry.detail) THEN FirstWith(filtered, "detail", entry.detail)
    ELSE filtered[1]

----------------------------------------------------------------------------
(* Widgets.  A widget on screen is <<[options, index, value]>>: the        *)
(* options and the index argument it was created with and the value it     *)
(* holds; <<>> is a widget that is not on screen.                          *)

Widget(options, index, value) == << [options |-> options, index |-> index, value |-> value] >>

\* The widget is created anew, at its index argument, when it was not on screen,
\* when its options changed, and when its index argument changed unless the
\* library identifies a keyed widget by its key alone.
Recreated(w, options, index, keyed) ==
    \/ w = <<>>
    \/ w[1].options # options
    \/ w[1].index # index /\ (~keyed \/ identity = "params")

\* st.selectbox(label, options, index=index, key=...): the value it returns
Selectbox(w, options, index, keyed) ==
    IF Recreated(w, options, index, keyed) THEN options[index] ELSE w[1].value

\* st.text_input(label, value) without a key: the text it returns
TextInput(w, value) ==
    IF w = <<>> \/ w[1].index # value THEN value ELSE w[1].value

NoEvent == [kind |-> "none", row |-> 0, month |-> "", val |-> 0]

\* the value a widget on screen holds once the user's interaction is applied
Touched(w, ev, kind, i) ==
    IF ev.kind = kind /\ ev.row = i /\ w # <<>>
        THEN << [w[1] EXCEPT !.value = ev.val] >>
        ELSE w

WidgetOf(ws, i) == IF i \in DOMAIN ws THEN ws[i] ELSE <<>>

----------------------------------------------------------------------------
(* Rows.                                                                   *)

Months == Range(MONTH_LIST)

\* the row that ensure_entry_list_length and the Add button append
NewEntry ==
    [group |-> None, name |-> None, detail |-> None, code |-> None,
     qty |-> [m \in Months |-> 0], total |-> 0]

\* total = 0; for m in MONTH_LIST: total += qty
RECURSIVE SumFrom(_, _)
SumFrom(qty, k) ==
    IF k > Len(MONTH_LIST) THEN 0 ELSE qty[MONTH_LIST[k]] + SumFrom(qty, k + 1)

\* the loop started one month late
TotalFromSecond(qty) == SumFrom(qty, 2)

Total(qty) == SumFrom(qty, 1)

\* the values the twelve st.number_input of row i return
NumberInputs(i, entry, ev) ==
    [m \in Months |->
        IF ev.kind = "month" /\ ev.row = i /\ ev.month = m THEN ev.val ELSE entry.qty[m]]

\* the locked row saved back whole, without the fields it does not draw
LockedRowRebuilt(entry, qty) == [NewEntry EXCEPT !.qty = qty, !.total = Total(qty)]

\* lines 251-278: a locked row takes only the quantities and the total
LockedRow(entry, qty) == [entry EXCEPT !.qty = qty, !.total = Total(qty)]

\* line 286
current_group(entry) ==
    IF entry.group \in Range(product_groups) THEN entry.group ELSE product_groups[1]

\* a canonical index of another group replaced by the last row of the group
PrevIdxLast(i, filtered, entry) ==
    LET stored == IF i \in DOMAIN row_idx THEN row_idx[i] ELSE find_row_index(filtered, entry)
    IN  IF stored \in Range(filtered) THEN stored ELSE filtered[Len(filtered)]

\* lines 308-315: the canonical row index the selectors are drawn at
PrevIdx(i, filtered, entry) ==
    LET stored == IF i \in DOMAIN row_idx THEN row_idx[i] ELSE find_row_index(filtered, entry)
    IN  IF stored \in Range(filtered) THEN stored ELSE filtered[1]

\* the decision without its elif branch
NewIdxNameOnly(prev_idx, selected_idx_name, selected_idx_detail) ==
    IF selected_idx_name # prev_idx THEN selected_idx_name ELSE prev_idx

\* the decision with the detail selector asked first
NewIdxDetailFirst(prev_idx, selected_idx_name, selected_idx_detail) ==
    IF selected_idx_detail # prev_idx THEN selected_idx_detail
    ELSE IF selected_idx_name # prev_idx THEN selected_idx_name
    ELSE prev_idx

\* lines 335-340: decide which control changed
NewIdx(prev_idx, selected_idx_name, selected_idx_detail) ==
    IF selected_idx_name # prev_idx THEN selected_idx_name
    ELSE IF selected_idx_detail # prev_idx THEN selected_idx_detail
    ELSE prev_idx

\* the row looked up again by the name shown, which finds the first record with it
SavedRowFirstOfName(group, new_idx, qty) ==
    [group  |-> group,
     name   |-> df_products[new_idx].name,
     detail |-> df_products[FirstWith(FilteredOf[group], "name", df_products[new_idx].name)].detail,
     code   |-> df_products[FirstWith(FilteredOf[group], "name", df_products[new_idx].name)].code,
     qty    |-> qty,
     total  |-> Total(qty)]

\* the name read by position in the group, not by the row index chosen
SavedRowByPosition(group, new_idx, qty) ==
    [group  |-> group,
     name   |-> df_products[FilteredOf[group][1]].name,
     detail |-> df_products[new_idx].detail,
     code   |-> df_products[new_idx].code,
     qty    |-> qty,
     total  |-> Total(qty)]

\* lines 345-378: the entry saved back
SavedRow(group, new_idx, qty) ==
    [group  |-> group,
     name   |-> df_products[new_idx].name,
     detail |-> df_products[new_idx].detail,
     code   |-> df_products[new_idx].code,
     qty    |-> qty,
     total  |-> Total(qty)]

\* the value the group selectbox of row i returns (lines 285-293)
GroupChoice(i, entry, ev) ==
    Selectbox(Touched(WidgetOf(wGroup, i), ev, "group", i), product_groups,
              IndexOf(product_groups, current_group(entry)), TRUE)

\* the value the name selectbox of row i returns (lines 318-324)
NameChoice(i, filtered, prev_idx, ev) ==
    Selectbox(Touched(WidgetOf(wName, i), ev, "name", i), filtered,
              IndexOf(filtered, prev_idx), TRUE)

\* the value the detail selectbox of row i returns (lines 327-333)
DetailChoice(i, filtered, prev_idx, ev) ==
    Selectbox(Touched(WidgetOf(wDetail, i), ev, "detail", i), filtered,
              IndexOf(filtered, prev_idx), TRUE)

\* What one iteration of the loop over the rows leaves: the row as stored,
\* its canonical key, its widgets on screen and whether it drew the warning.
Rendered(entry, keyed, idx, wg, wn, wd, warned) ==
    [entry |-> entry, keyed |-> keyed, idx |-> idx, wg |-> wg, wn |-> wn, wd |-> wd,
     warned |-> warned]

\* lines 335-378, with the values the selectors returned
LinkedRow(wg, group, qty, filtered, prev_idx, selected_idx_name, selected_idx_detail) ==
    Rendered(SavedRow(group, NewIdx(prev_idx, selected_idx_name, selected_idx_detail), qty),
             TRUE,
             NewIdx(prev_idx, selected_idx_name, selected_idx_detail),
             wg,
             Widget(filtered, IndexOf(filtered, prev_idx), selected_idx_name),
             Widget(filtered, IndexOf(filtered, prev_idx), selected_idx_detail),
             FALSE)

\* lines 301-333, with the canonical row index
SelectorsRow(i, ev, wg, group, qty, filtered, prev_idx) ==
    LinkedRow(wg, group, qty, filtered, prev_idx,
              NameChoice(i, filtered, prev_idx, ev),
              DetailChoice(i, filtered, prev_idx, ev))

\* lines 295-299, with the group the selector returned: the row is skipped
\* with a warning when the group has no products
EditableRow(i, entry, ev, wg, group, qty) ==
    IF FilteredOf[group] = <<>>
    THEN Rendered(entry, i \in DOMAIN row_idx,
                  IF i \in DOMAIN row_idx THEN row_idx[i] ELSE 0,
                  wg, <<>>, <<>>, TRUE)
    ELSE SelectorsRow(i, ev, wg, group, qty, FilteredOf[group],
                      PrevIdx(i, FilteredOf[group], entry))

\* lines 246-378: one iteration of the loop over the rows
RenderRow(i, entry, ev) ==
    IF i <= locked_rows
    THEN Rendered(LockedRow(entry, NumberInputs(i, entry, ev)), i \in DOMAIN row_idx,
                  IF i \in DOMAIN row_idx THEN row_idx[i] ELSE 0,
                  <<>>, <<>>, <<>>, FALSE)
    ELSE EditableRow(i, entry, ev,
                     Widget(product_groups, IndexOf(product_groups, current_group(entry)),
                            GroupChoice(i, entry, ev)),
                     GroupChoice(i, entry, ev), NumberInputs(i, entry, ev))

\* the loop of lines 246-378 over the rows from row i on
RECURSIVE RenderRows(_, _, _)
RenderRows(rows, i, ev) ==
    IF i > Len(rows) THEN <<>>
    ELSE <<RenderRow(i, rows[i], ev)>> \o RenderRows(rows, i + 1, ev)

----------------------------------------------------------------------------
(* The form page.                                                          *)

Other == <<"Other">>

\* lines 188-195: the index the country selectbox is drawn at
CountryIndex ==
    IndexOf(countries, IF country \in Range(countries) THEN country ELSE countries[1])

\* lines 192-196: the value the country selectbox returns
CountryChoice(ev) ==
    Selectbox(Touched(wCountry, ev, "country", 0), countries, CountryIndex, FALSE)

\* line 201: the text the country text input is drawn with
CountryTextValue == IF country \notin Range(countries) THEN country ELSE <<>>

\* lines 199-202: the text the country text input returns
CountryText(ev) == TextInput(Touched(wText, ev, "text", 0), CountryTextValue)

\* lines 211-220: a text input returns what the user typed into it, else its text
EmailInput(ev) == IF ev.kind = "email" THEN ev.val ELSE email

CompanyInput(ev) == IF ev.kind = "company" THEN ev.val ELSE company

\* lines 226-241: ensure_entry_list_length, then the Add button
RowsToRender(ev) ==
    IF ev.kind = "add"
        THEN Append(IF product_entries = <<>> THEN <<NewEntry>> ELSE product_entries, NewEntry)
        ELSE IF product_entries = <<>> THEN <<NewEntry>> ELSE product_entries

\* the review gate without the trimming
ValidateUntrimmed(em, co, entries) ==
    IF em = <<>> THEN "email"
    ELSE IF co = <<>> THEN "company"
    ELSE IF entries = <<>> THEN "rows"
    ELSE ""

\* lines 387-395: the first failing condition of the review gate, "" when none fails
Validate(em, co, entries) ==
    IF Strip(em) = <<>> THEN "email"
    ELSE IF Strip(co) = <<>> THEN "company"
    ELSE IF entries = <<>> THEN "rows"
    ELSE ""

\* lines 385-399: the Review button, with the outcome of the validation
ReviewButton(failed, n) ==
    IF failed # ""
        THEN /\ alert' = failed
             /\ UNCHANGED << locked_rows, page >>
        ELSE /\ locked_rows' = n
             /\ page' = "review"
             /\ alert' = ""

\* lines 188-205 and 385-399, with the rows rendered, the value the country
\* selectbox returned and the text the country text input returned
FormState(ev, out, choice, text) ==
    /\ country' = IF choice # Other THEN choice
                  ELSE IF Strip(text) # <<>> THEN Strip(text) ELSE Other
    /\ wCountry' = Widget(countries, CountryIndex, choice)
    /\ wText' = IF choice = Other THEN Widget(<<>>, CountryTextValue, text) ELSE <<>>
    /\ email' = EmailInput(ev)
    /\ company' = CompanyInput(ev)
    /\ product_entries' = [i \in DOMAIN out |-> out[i].entry]
    /\ row_idx' = [i \in { j \in DOMAIN out : out[j].keyed } |-> out[i].idx]
    /\ wGroup' = [i \in DOMAIN out |-> out[i].wg]
    /\ wName' = [i \in DOMAIN out |-> out[i].wn]
    /\ wDetail' = [i \in DOMAIN out |-> out[i].wd]
    /\ IF ev.kind = "review"
         THEN ReviewButton(Validate(EmailInput(ev), CompanyInput(ev), out), Len(out))
         ELSE /\ alert' = IF \E i \in DOMAIN out : out[i].warned THEN "warning" ELSE ""
              /\ UNCHANGED << locked_rows, page >>
    /\ UNCHANGED sheet

\* lines 188-241 and 286: with no group in the product list the first row
\* of the loop is editable and product_groups[0] raises IndexError; the script
\* run ends there, after the country, the email, the company and the rows
\* appended were stored, with no row and no Review button drawn
FormCrash(ev, rows, choice, text) ==
    /\ country' = IF choice # Other THEN choice
                  ELSE IF Strip(text) # <<>> THEN Strip(text) ELSE Other
    /\ wCountry' = Widget(countries, CountryIndex, choice)
    /\ wText' = IF choice = Other THEN Widget(<<>>, CountryTextValue, text) ELSE <<>>
    /\ email' = EmailInput(ev)
    /\ company' = CompanyInput(ev)
    /\ product_entries' = rows
    /\ wGroup' = [i \in DOMAIN rows |-> <<>>]
    /\ wName' = [i \in DOMAIN rows |-> <<>>]
    /\ wDetail' = [i \in DOMAIN rows |-> <<>>]
    /\ alert' = "crash"
    /\ UNCHANGED << row_idx, locked_rows, page, sheet >>

\* render_form_page, lines 178-399, run with the interaction ev
FormPage(ev) ==
    IF NoGroups
        THEN FormCrash(ev, RowsToRender(ev), CountryChoice(ev), CountryText(ev))
        ELSE FormState(ev, RenderRows(RowsToRender(ev), 1, ev), CountryChoice(ev),
                       CountryText(ev))

----------------------------------------------------------------------------
(* The review page and the submission.                                     *)

Header == [kind |-> "header"]

\* lines 468-483: the sheet row of one entry
DataRow(entry) ==
    [kind |-> "data", email |-> email, country |-> country, company |-> company,
     group |-> entry.group, name |-> entry.name, code |-> entry.code,
     detail |-> entry.detail, qty |-> entry.qty, total |-> entry.total]

\* the submission that writes the sheet anew instead of appending to it
submit_rewrites_sheet ==
    sheet' = <<Header>> \o [i \in DOMAIN product_entries |-> DataRow(product_entries[i])]

\* submit_to_google, lines 443-483
submit_to_google ==
    LET headed == IF Len(sheet) = 0 THEN Append(sheet, Header) ELSE sheet
    IN  sheet' = headed \o [i \in DOMAIN product_entries |-> DataRow(product_entries[i])]

\* the review page with a Go Back button that unlocks the rows
ReviewPageUnlocks(ev) ==
    /\ page' = IF ev.kind = "back" THEN "form" ELSE page
    /\ locked_rows' = IF ev.kind = "back" THEN 0 ELSE locked_rows
    /\ IF ev.kind = "submit"
         THEN submit_to_google /\ alert' = "success"
         ELSE UNCHANGED sheet /\ alert' = ""
    /\ wCountry' = <<>>
    /\ wText' = <<>>
    /\ wGroup' = [i \in DOMAIN product_entries |-> <<>>]
    /\ wName' = [i \in DOMAIN product_entries |-> <<>>]
    /\ wDetail' = [i \in DOMAIN product_entries |-> <<>>]
    /\ UNCHANGED << product_entries, email, company, country, row_idx >>

\* render_review_page, lines 404-438, run with the interaction ev
ReviewPage(ev) ==
    /\ page' = IF ev.kind = "back" THEN "form" ELSE page
    /\ IF ev.kind = "submit"
         THEN submit_to_google /\ alert' = "success"
         ELSE UNCHANGED sheet /\ alert' = ""
    /\ wCountry' = <<>>
    /\ wText' = <<>>
    /\ wGroup' = [i \in DOMAIN product_entries |-> <<>>]
    /\ wName' = [i \in DOMAIN product_entries |-> <<>>]
    /\ wDetail' = [i \in DOMAIN product_entries |-> <<>>]
    /\ UNCHANGED << product_entries, email, company, country, locked_rows, row_idx >>

\* lines 488-491: one run of the script.  An interaction with a widget that
\* the page being rendered does not draw has no effect on the run.
Run(ev) ==
    /\ IF page = "form"
         THEN FormPage(IF shown = "form" THEN ev ELSE NoEvent)
         ELSE ReviewPage(IF shown = "review" THEN ev ELSE NoEvent)
    /\ shown' = page
    /\ UNCHANGED << identity, catalog, peer >>

\* a change of an input of the form, which runs the script
Edit(ev) ==
    /\ edits < MaxEdits
    /\ edits' = edits + 1
    /\ Run(ev)

\* a click on a button, which runs the script
Click(ev) ==
    /\ UNCHANGED edits
    /\ Run(ev)

Ev(kind, row, month, val) == [kind |-> kind, row |-> row, month |-> month, val |-> val]

----------------------------------------------------------------------------
(* The state after the session state is initialised, lines 97-114, before  *)
(* the first script run has drawn anything.                                *)

Start ==
    /\ page = "form"
    /\ product_entries = <<>>
    /\ email = <<>>
    /\ company = <<>>
    /\ country = <<>>
    /\ locked_rows = 0
    /\ row_idx = <<>>
    /\ shown = "none"
    /\ wCountry = <<>>
    /\ wText = <<>>
    /\ wGroup = <<>>
    /\ wName = <<>>
    /\ wDetail = <<>>
    /\ identity \in {"params", "key"}
    /\ alert = ""
    /\ edits = 0
    /\ sheet = <<>>
    /\ peer = "idle"

\* the form run with its product list
Init == Start /\ catalog = load_data

\* the form run with its product list or with an empty one
InitAnyList == Start /\ catalog \in {load_data} \cup EmptyLists

(* The interactions. *)

\* the browser opens the page: the first script run
Load ==
    /\ shown = "none"
    /\ Click(NoEvent)

SelectCountry ==
    /\ shown = "form"
    /\ \E c \in Range(countries) :
        /\ c # wCountry[1].value
        /\ Edit(Ev("country", 0, "", c))

TypeCountry ==
    /\ shown = "form"
    /\ wText # <<>>
    /\ \E t \in TextInputs :
        /\ t # wText[1].value
        /\ Edit(Ev("text", 0, "", t))

EditEmail ==
    /\ shown = "form"
    /\ \E t \in TextInputs :
        /\ t # email
        /\ Edit(Ev("email", 0, "", t))

EditCompany ==
    /\ shown = "form"
    /\ \E t \in TextInputs :
        /\ t # company
        /\ Edit(Ev("company", 0, "", t))

ClickAdd ==
    /\ shown = "form"
    /\ Len(product_entries) < MaxRows
    /\ Edit(Ev("add", 0, "", 0))

SelectGroup ==
    /\ shown = "form"
    /\ \E i \in DOMAIN wGroup :
        /\ wGroup[i] # <<>>
        /\ \E g \in Range(wGroup[i][1].options) :
            /\ g # wGroup[i][1].value
            /\ Edit(Ev("group", i, "", g))

SelectName ==
    /\ shown = "form"
    /\ \E i \in DOMAIN wName :
        /\ wName[i] # <<>>
        /\ \E k \in Range(wName[i][1].options) :
            /\ k # wName[i][1].value
            /\ Edit(Ev("name", i, "", k))

SelectDetail ==
    /\ shown = "form"
    /\ \E i \in DOMAIN wDetail :
        /\ wDetail[i] # <<>>
        /\ \E k \in Range(wDetail[i][1].options) :
            /\ k # wDetail[i][1].value
            /\ Edit(Ev("detail", i, "", k))

EditMonth ==
    /\ shown = "form"
    /\ alert # "crash"
    /\ \E i \in DOMAIN product_entries, k \in 1..MaxEditMonth, q \in 0..MaxQty :
        /\ q # product_entries[i].qty[MONTH_LIST[k]]
        /\ Edit(Ev("month", i, MONTH_LIST[k], q))

ClickReview ==
    /\ shown = "form"
    /\ alert # "crash"
    /\ Click(Ev("review", 0, "", 0))

ClickGoBack ==
    /\ shown = "review"
    /\ Click(Ev("back", 0, "", 0))

ClickSubmit ==
    /\ shown = "review"
    /\ Len(sheet) < MaxSheet
    /\ Click(Ev("submit", 0, "", 0))

ClickDownload ==
    /\ shown = "review"
    /\ Click(Ev("download", 0, "", 0))

Next ==
    \/ Load
    \/ SelectCountry
    \/ TypeCountry
    \/ EditEmail
    \/ EditCompany
    \/ ClickAdd
    \/ SelectGroup
    \/ SelectName
    \/ SelectDetail
    \/ EditMonth
    \/ ClickReview
    \/ ClickGoBack
    \/ ClickSubmit
    \/ ClickDownload

Spec == Init /\ [][Next]_vars

\* the sessions of a library that identifies every widget by its parameters
InitParams == Init /\ identity = "params"

SpecParams == InitParams /\ [][Next]_vars

SpecAnyList == InitAnyList /\ [][Next]_vars

----------------------------------------------------------------------------
(* Another session submitting to the same sheet.  Each session runs its    *)
(* own copy of the script; submit_to_google is a sequence of calls to the  *)
(* remote sheet, and the calls of two sessions interleave.  The other      *)
(* session is followed call by call; the Submit of this session is one     *)
(* step, which is one of the interleavings.                                *)

\* the sheet row of the other session: one row, left at its default
PeerRow ==
    [kind |-> "data", email |-> <<"b">>, country |-> countries[1], company |-> <<"b">>,
     group |-> product_groups[1],
     name |-> df_products[FilteredOf[product_groups[1]][1]].name,
     code |-> df_products[FilteredOf[product_groups[1]][1]].code,
     detail |-> df_products[FilteredOf[product_groups[1]][1]].detail,
     qty |-> [m \in Months |-> 0], total |-> 0]

\* line 451: len(sheet.get_all_values()) == 0
PeerCheck ==
    /\ peer = "idle"
    /\ peer' = IF Len(sheet) = 0 THEN "empty" ELSE "rows"
    /\ UNCHANGED << page, product_entries, email, company, country, locked_rows, row_idx,
                    shown, wCountry, wText, wGroup, wName, wDetail, identity, alert,
                    edits, sheet, catalog >>

\* lines 452-466: the header appended because the sheet was found empty
PeerHeader ==
    /\ peer = "empty"
    /\ sheet' = Append(sheet, Header)
    /\ peer' = "rows"
    /\ UNCHANGED << page, product_entries, email, company, country, locked_rows, row_idx,
                    shown, wCountry, wText, wGroup, wName, wDetail, identity, alert,
                    edits, catalog >>

\* lines 468-483: the row of the other session appended
PeerAppend ==
    /\ peer = "rows"
    /\ sheet' = Append(sheet, PeerRow)
    /\ peer' = "done"
    /\ UNCHANGED << page, product_entries, email, company, country, locked_rows, row_idx,
                    shown, wCountry, wText, wGroup, wName, wDetail, identity, alert,
                    edits, catalog >>

NextShared ==
    \/ Next
    \/ PeerCheck
    \/ PeerHeader
    \/ PeerAppend

SpecShared == Init /\ [][NextShared]_vars

----------------------------------------------------------------------------
(* What the properties below speak of.                                     *)

\* the product identity of a stored row
Tuple(entry) == << entry.group, entry.name, entry.detail, entry.code >>

\* the product identity of the catalog record with label k
RecordTuple(k) ==
    << load_data[k].group, load_data[k].name, load_data[k].detail, load_data[k].code >>

\* the labels of the catalog records of group g
LabelsOf(g) == { k \in DOMAIN load_data : load_data[k].group = g }

\* the first record of group g in the order of the source file
FirstLabelOf(g) == CHOOSE k \in LabelsOf(g) : \A j \in LabelsOf(g) : k <= j

\* the sum of the twelve stored month quantities of a row
RECURSIVE SumOver(_, _)
SumOver(qty, S) ==
    IF S = {} THEN 0
    ELSE LET m == CHOOSE x \in S : TRUE IN qty[m] + SumOver(qty, S \ {m})

\* a text that is not empty after trimming
NonBlank(s) == \E k \in DOMAIN s : s[k] # Space

\* the last script run drew the form, so that the widgets on screen hold
\* what the selectors returned in it
FormDrawn == shown = "form"

\* row i was drawn as an editable row with its selectors
Drawn(i) == i \in DOMAIN wName /\ wName[i] # <<>>

\* what the selectors of row i were drawn at, and what they returned
GroupAt(i) == wGroup[i][1].options[wGroup[i][1].index]
GroupRaw(i) == wGroup[i][1].value
IndexAt(i) == wName[i][1].options[wName[i][1].index]
NameRaw(i) == wName[i][1].value
DetailRaw(i) == wDetail[i][1].value

\* the records of group g that have the value record k has in a column
Sharing(g, column, k) == { j \in LabelsOf(g) : load_data[j][column] = load_data[k][column] }

\* record k is one of several records of group g with its value in a column
Shared(g, column, k) == Cardinality(Sharing(g, column, k)) > 1

\* the first, in source order, of the records of group g sharing k's value
FirstSharing(g, column, k) ==
    CHOOSE j \in Sharing(g, column, k) : \A h \in Sharing(g, column, k) : j <= h

----------------------------------------------------------------------------
(* C1: in every reachable state every row of product_entries, new,         *)
(* editable or locked, has a total equal to the sum of its twelve stored   *)
(* month quantities.                                                       *)
C1_TotalIsSumOfMonths ==
    \A i \in DOMAIN product_entries :
        /\ DOMAIN product_entries[i].qty = { MONTH_LIST[k] : k \in 1..12 }
        /\ product_entries[i].total = SumOver(product_entries[i].qty, DOMAIN product_entries[i].qty)

\* a locked row and an editable row both carry quantities, and the totals agree
C1_Witness ==
    /\ FormDrawn
    /\ \E i \in DOMAIN product_entries :
        /\ i <= locked_rows
        /\ product_entries[i].total > 0
        /\ product_entries[i].total = SumOver(product_entries[i].qty, Months)

(* C2: a row that is locked keeps its group, name, detail and code in      *)
(* every step: form renders, Review and Go-Back round trips and quantity   *)
(* edits change at most its month quantities and its total.                *)
C2_LockedRowsKeepIdentity ==
    [][ \A i \in 1..locked_rows :
            /\ i \in DOMAIN product_entries'
            /\ Tuple(product_entries'[i]) = Tuple(product_entries[i]) ]_vars

\* a locked row that a form render has drawn again and that carries a quantity
C2_Witness ==
    /\ FormDrawn /\ page = "form"
    /\ locked_rows >= 1
    /\ wGroup[1] = <<>>
    /\ product_entries[1].total > 0
    /\ product_entries[1].group # None

(* C3: the page marker is "review" only when the email and the company are *)
(* not empty after trimming and there is at least one row.                 *)
C3_ReviewGate ==
    page = "review" =>
        /\ NonBlank(email)
        /\ NonBlank(company)
        /\ Len(product_entries) >= 1

\* the review page has been reached and drawn
C3_Witness == page = "review" /\ shown = "review" /\ Head(email) = Space

(* C4: after every render pass the stored (group, name, detail, code) of   *)
(* an editable row is that of exactly one record of the catalog, and that  *)
(* record is of the stored group; or the row drew the no-products warning  *)
(* and was left as it was.                                                 *)
C4_TupleIsOneRecord ==
    \A i \in DOMAIN product_entries :
        i > locked_rows =>
            \/ Cardinality({ k \in LabelsOf(product_entries[i].group) :
                               RecordTuple(k) = Tuple(product_entries[i]) }) = 1
            \/ alert = "warning" /\ Tuple(product_entries[i]) = Tuple(NewEntry)

\* a pass in which the name selector of an editable row was changed
C4_Witness ==
    /\ FormDrawn
    /\ \E i \in DOMAIN product_entries :
        /\ i > locked_rows /\ Drawn(i)
        /\ NameRaw(i) # IndexAt(i)
        /\ Tuple(product_entries[i]) = RecordTuple(NameRaw(i))

(* C5: a render pass in which the selectors of an editable row return the  *)
(* values they returned in the pass before, with the same quantities,      *)
(* leaves the stored row and its canonical index as they were.             *)
C5_RenderIsIdempotent ==
    [][ (shown = "form" /\ page = "form") =>
          \A i \in DOMAIN product_entries :
             ( /\ i > locked_rows
               /\ Drawn(i)
               /\ wGroup'[i] # <<>> /\ wName'[i] # <<>>
               /\ wGroup'[i][1].value = GroupRaw(i)
               /\ wName'[i][1].value = NameRaw(i)
               /\ wDetail'[i][1].value = DetailRaw(i)
               /\ product_entries'[i].qty = product_entries[i].qty )
             => /\ product_entries'[i] = product_entries[i]
                /\ row_idx'[i] = row_idx[i] ]_vars

(* C6: a Review click that fails validation reports the first failing      *)
(* condition, leaves the page on "form" and locked_rows as it was, and     *)
(* email, company, country and the rows keep their values.                 *)
C6_RejectedReviewKeepsState ==
    [][ alert' \in {"email", "company", "rows"} =>
          /\ alert' = ( IF ~NonBlank(email) THEN "email"
                        ELSE IF ~NonBlank(company) THEN "company"
                        ELSE "rows" )
          /\ page' = "form"
          /\ locked_rows' = locked_rows
          /\ email' = email
          /\ company' = company
          /\ country' = country
          /\ product_entries' = product_entries ]_vars

(* C7: after a successful Submit the row list of the session is empty.     *)
C7_SubmitClearsRows == alert = "success" => product_entries = <<>>

(* C8: when the group of an editable row changes to a group that has       *)
(* neither the stored name nor the stored detail, the row takes the name,  *)
(* detail and code of the first record of the new group in source order,   *)
(* and keeps its month quantities.                                         *)
C8_GroupChangeTakesFirstRecord ==
    [][ \A i \in DOMAIN product_entries :
          ( /\ i > locked_rows
            /\ product_entries[i].group # None
            /\ product_entries'[i].group # product_entries[i].group
            /\ \A k \in LabelsOf(product_entries'[i].group) :
                  /\ load_data[k].name # product_entries[i].name
                  /\ load_data[k].detail # product_entries[i].detail )
          => /\ Tuple(product_entries'[i]) =
                    RecordTuple(FirstLabelOf(product_entries'[i].group))
             /\ product_entries'[i].qty = product_entries[i].qty ]_vars

\* the first row, drawn at its default, was moved to the other group
C8_Witness ==
    /\ FormDrawn /\ edits = 1
    /\ Drawn(1)
    /\ GroupRaw(1) # GroupAt(1)
    /\ product_entries[1].group = GroupRaw(1)
    /\ Tuple(product_entries[1]) = RecordTuple(FirstLabelOf(GroupRaw(1)))
    /\ \A k \in LabelsOf(GroupRaw(1)) : load_data[k].name # load_data[FirstLabelOf(GroupAt(1))].name

(* C9: a row added in a render pass leaves the pass with the group, name,  *)
(* detail and code of the first record, in source order, of the default    *)
(* group, and no row leaves a form render pass with an unset tuple.        *)
C9_NewRowTakesDefault ==
    [][ /\ \A i \in DOMAIN product_entries' \ DOMAIN product_entries :
              Tuple(product_entries'[i]) = RecordTuple(FirstLabelOf(product_groups[1]))
        /\ \A i \in DOMAIN product_entries' :
              /\ product_entries'[i].group # None
              /\ product_entries'[i].name # None
              /\ product_entries'[i].detail # None
              /\ product_entries'[i].code # None ]_vars

\* the Add button appended a second row, and the pass left it at the default
C9_Witness ==
    /\ FormDrawn
    /\ Len(product_entries) = 2
    /\ Drawn(2)
    /\ wName[2][1].index = 1
    /\ Tuple(product_entries[2]) = RecordTuple(FirstLabelOf(product_groups[1]))
    /\ product_entries[1].group # product_entries[2].group

(* C10: when exactly one of the name selector and the detail selector of   *)
(* an editable row returns a record other than the one it was drawn at, and *)
(* the group selector returns the group it was drawn at, the stored group  *)
(* is that group and the stored name, detail and code are those of the     *)
(* record chosen.                                                          *)
C10_OneSelectorChanged ==
    FormDrawn =>
        \A i \in DOMAIN product_entries :
            ( /\ i > locked_rows /\ Drawn(i)
              /\ GroupRaw(i) = GroupAt(i)
              /\ (NameRaw(i) # IndexAt(i)) # (DetailRaw(i) # IndexAt(i)) )
            => /\ product_entries[i].group = GroupAt(i)
               /\ Tuple(product_entries[i]) =
                     RecordTuple(IF NameRaw(i) # IndexAt(i) THEN NameRaw(i) ELSE DetailRaw(i))

\* a pass in which the detail selector alone was changed
C10_Witness ==
    /\ FormDrawn
    /\ \E i \in DOMAIN product_entries :
        /\ i > locked_rows /\ Drawn(i)
        /\ GroupRaw(i) = GroupAt(i)
        /\ NameRaw(i) = IndexAt(i)
        /\ DetailRaw(i) # IndexAt(i)
        /\ product_entries[i].code = load_data[DetailRaw(i)].code

C12_EmptyGroupWarns ==
    [][ (page = "form" /\ NoGroups) =>
          /\ alert' # "crash"
          /\ \A i \in DOMAIN product_entries :
                Tuple(product_entries'[i]) = Tuple(product_entries[i]) ]_vars

(* C13: when the group of an editable row changes, the row takes the       *)
(* record of the new group that find_row_index computes for the stored     *)
(* entry: the first with the stored code, else the first with the stored   *)
(* name, else the first with the stored detail, else the first record; a   *)
(* stored name that the new group has is kept.                             *)
C13_GroupChangeTakesBestMatch ==
    [][ \A i \in DOMAIN product_entries :
          ( /\ i > locked_rows
            /\ product_entries[i].group # None
            /\ product_entries'[i].group # product_entries[i].group )
          => /\ Tuple(product_entries'[i]) =
                    RecordTuple(find_row_index(FilteredOf[product_entries'[i].group],
                                               product_entries[i]))
             /\ Among(FilteredOf[product_entries'[i].group], "name", product_entries[i].name)
                    => product_entries'[i].name = product_entries[i].name ]_vars

(* C14: a successful Review locks every row there is, Go Back & Edit        *)
(* changes only the page marker, and locked_rows never decreases and never *)
(* exceeds the number of rows: it changes only with a successful Review,   *)
(* so a locked row stays locked and the rows added after returning stay    *)
(* editable until then.                                                    *)
C14_LockedRowsOnlyGrow ==
    [][ /\ locked_rows' >= locked_rows
        /\ locked_rows' <= Len(product_entries')
        /\ Len(product_entries') >= Len(product_entries)
        /\ (page = "form" /\ page' = "review") => locked_rows' = Len(product_entries')
        /\ (page = "form" /\ page' = "form") => locked_rows' = locked_rows
        /\ page = "review" =>
              /\ page' = "form" \/ page' = "review"
              /\ UNCHANGED << product_entries, email, company, country, locked_rows,
                              row_idx >> ]_vars

\* back on the form after a Review, with a locked row and a row added since
C14_Witness ==
    /\ FormDrawn /\ page = "form"
    /\ locked_rows = 1
    /\ Len(product_entries) = 2
    /\ wGroup[1] = <<>>
    /\ Drawn(2)

(* C16: a Submit appends to the sheet one data row per row of the list, in  *)
(* list order, with the row's group, name, code, detail, quantities and    *)
(* total and the session's email, country and company; the rows already in *)
(* the sheet stay as they are, in this and in every other step, and the    *)
(* Submit leaves the rows, locked_rows, the page, the email, the company   *)
(* and the country of the session as they were.                            *)
C16_SubmitAppendsRows ==
    [][ /\ \A k \in DOMAIN sheet : k \in DOMAIN sheet' /\ sheet'[k] = sheet[k]
        /\ sheet' # sheet => alert' = "success"
        /\ alert' = "success" =>
              LET first == Len(sheet') - Len(product_entries)
              IN  /\ first = Len(sheet) + (IF sheet = <<>> THEN 1 ELSE 0)
                  /\ \A i \in DOMAIN product_entries :
                        /\ sheet'[first + i].kind = "data"
                        /\ sheet'[first + i].group = product_entries[i].group
                        /\ sheet'[first + i].name = product_entries[i].name
                        /\ sheet'[first + i].code = product_entries[i].code
                        /\ sheet'[first + i].detail = product_entries[i].detail
                        /\ sheet'[first + i].qty = product_entries[i].qty
                        /\ sheet'[first + i].total = product_entries[i].total
                        /\ sheet'[first + i].email = email
                        /\ sheet'[first + i].country = country
                        /\ sheet'[first + i].company = company
                  /\ UNCHANGED << product_entries, locked_rows, page, email, company,
                                  country >> ]_vars

\* a second Submit has appended the row of the session after the rows of the first
C16_Witness ==
    /\ alert = "success"
    /\ Len(sheet) = 3
    /\ Len(product_entries) = 1
    /\ sheet[2].kind = "data" /\ sheet[3].kind = "data"
    /\ sheet[3].name = product_entries[1].name
    /\ sheet[3].email = email

(* C15: however the Submits of independent sessions on one sheet           *)
(* interleave, the sheet has exactly one header row, the header is its     *)
(* first row and every data row comes after it.                            *)
C15_OneHeaderFirst ==
    sheet # <<>> =>
        /\ sheet[1].kind = "header"
        /\ \A k \in 2..Len(sheet) : sheet[k].kind = "data"

(* C17: in a render pass where the name selector and the description       *)
(* selector of an editable row both return a record other than the         *)
(* canonical one, the row takes the record of the name selector and the    *)
(* choice of the description selector is dropped; the description choice   *)
(* is applied only when the name selector returns the canonical record.    *)
C17_NameSelectorWins ==
    FormDrawn =>
        \A i \in DOMAIN product_entries :
            (i > locked_rows /\ Drawn(i)) =>
                /\ (NameRaw(i) # IndexAt(i) /\ DetailRaw(i) # IndexAt(i)) =>
                        /\ row_idx[i] = NameRaw(i)
                        /\ Tuple(product_entries[i]) = RecordTuple(NameRaw(i))
                /\ ( /\ DetailRaw(i) # IndexAt(i)
                     /\ DetailRaw(i) # NameRaw(i)
                     /\ row_idx[i] = DetailRaw(i) ) => NameRaw(i) = IndexAt(i)

\* both selectors returned a record other than the canonical one, and not the same
C17_Witness ==
    /\ FormDrawn
    /\ \E i \in DOMAIN product_entries :
        /\ i > locked_rows /\ Drawn(i)
        /\ NameRaw(i) # IndexAt(i)
        /\ DetailRaw(i) # IndexAt(i)
        /\ DetailRaw(i) # NameRaw(i)
        /\ product_entries[i].code = load_data[NameRaw(i)].code
        /\ product_entries[i].code # load_data[DetailRaw(i)].code

====
